---------------------------- MODULE Spec2Model ----------------------------
(***************************************************************************)
(* Model of the matrix_math header (class row, class matrix, Gauss-Jordan   *)
(* inversion, tolerance equality, multiplication, indexed access).          *)
(*                                                                         *)
(* Scalars.  The scalar type T is double.  A scalar is a tuple              *)
(*      <<"fin", n, d, t>>   the finite value  n/d + t * equality_tolerance *)
(*                           (d > 0, n/d in lowest terms, t an integer)     *)
(*      <<"inf", s, 1, 0>>   +infinity (s = 1) or -infinity (s = -1)        *)
(*      <<"nan", 0, 1, 0>>   NaN                                            *)
(* The tolerance 1e-11 is kept as a unit of its own because 10^11 is not    *)
(* a model integer; two finite values are ordered by n/d first and by t     *)
(* second, which is the order of the doubles while |t| stays small against  *)
(* 10^11 / d^2.  Finite arithmetic is exact: for the inputs of this model   *)
(* (0/1 matrices of size up to 3) every intermediate value is a dyadic      *)
(* rational that a double holds exactly.  The sign of zero is not kept: it  *)
(* matters only to 1/x, which row_reduce applies to a pivot, and a pivot    *)
(* is never -0.0 when the input holds no -0.0.                              *)
(*                                                                         *)
(* Where rounding matters (a pivot that is not a power of two), invert()    *)
(* of a square_matrix<1> is modelled a second time with doubles kept bit    *)
(* for bit: a 53-digit significand and an exponent, rounded to nearest,     *)
(* ties to even (DReciprocal, DTimes).                                      *)
(*                                                                         *)
(* The benchmark of matrix_math.cpp is modelled with its threads            *)
(* interleaved at the level of atomic operations and mutex operations;      *)
(* durations are whole ticks.                                               *)
(***************************************************************************)
EXTENDS Integers, Sequences, FiniteSets, TLC

\* Largest square size N of the matrices given to invert / get_inverse.
MaxSize == 3

\* Matrix cells of the inputs are drawn from this set of integers.
Entries == {0, 1}

\* Largest Height and Width of the operands of operator*, operator== and
\* of the matrix that indexed access is tried on.
MaxDim == 2

\* Largest number of cells of an operand of operator==.
MaxEqCells == 2

\* Cells of the operands of operator* are drawn from this set of integers.
MulEntries == {-1, 0, 2}

\* The largest cell of the 1 x 1 matrices inverted in double arithmetic.
MaxCell == 64

\* The benchmark: the largest number of hardware threads and the largest
\* test_count.
MaxThreads == 2
MaxTests == 3

\* The benchmark's matrices: the template argument Size of
\* time_random_matrices<Size> (7 in the program, scaled down here; the
\* cells are drawn from Entries), and the clock ticks one inversion takes.
BenchSize == 2
Durations == {1, 2}

----------------------------------------------------------------------------
(* Scalar arithmetic: IEEE-754 double, as far as the header uses it.       *)

RECURSIVE GCD(_, _)
GCD(a, b) == IF b = 0 THEN a ELSE GCD(b, a % b)

AbsInt(i) == IF i < 0 THEN -i ELSE i

\* The finite value n/d + t*tolerance, n/d reduced to lowest terms, d > 0.
Fin(n, d, t) ==
    LET g == GCD(AbsInt(n), AbsInt(d))
        s == IF d < 0 THEN -1 ELSE 1
    IN  <<"fin", (s * n) \div g, (s * d) \div g, t>>

Inf(s) == <<"inf", s, 1, 0>>
NaN == <<"nan", 0, 1, 0>>

\* T(i): conversion of an integer literal to the scalar type, as in T(0), T(1).
T(i) == Fin(i, 1, 0)

\* const default_T equality_tolerance{0.00000000001};
equality_tolerance == Fin(0, 1, 1)

IsNaN(x) == x[1] = "nan"
IsInf(x) == x[1] = "inf"
IsFin(x) == x[1] = "fin"

\* -1, 0 or 1: the sign of a scalar that is not NaN.
Sign(x) ==
    IF IsInf(x) THEN x[2]
    ELSE IF x[2] > 0 THEN 1
    ELSE IF x[2] < 0 THEN -1
    ELSE IF x[4] > 0 THEN 1
    ELSE IF x[4] < 0 THEN -1
    ELSE 0

\* Unary minus.
Neg(x) ==
    IF IsNaN(x) THEN NaN
    ELSE IF IsInf(x) THEN Inf(-x[2])
    ELSE Fin(-x[2], x[3], -x[4])

\* x + y
Add(x, y) ==
    IF IsNaN(x) \/ IsNaN(y) THEN NaN
    ELSE IF IsInf(x) /\ IsInf(y) THEN (IF x[2] = y[2] THEN x ELSE NaN)
    ELSE IF IsInf(x) THEN x
    ELSE IF IsInf(y) THEN y
    ELSE Fin(x[2] * y[3] + y[2] * x[3], x[3] * y[3], x[4] + y[4])

\* x - y
Sub(x, y) == Add(x, Neg(y))

\* x * y.  A finite product is formed when at most one factor carries
\* tolerance units and the other is an integer (the tolerance-squared term
\* of two such factors is below double precision and is never formed here).
Mul(x, y) ==
    IF IsNaN(x) \/ IsNaN(y) THEN NaN
    ELSE IF IsInf(x) \/ IsInf(y)
         THEN (IF Sign(x) = 0 \/ Sign(y) = 0 THEN NaN ELSE Inf(Sign(x) * Sign(y)))
    ELSE CASE x[4] = 0 /\ y[4] = 0 -> Fin(x[2] * y[2], x[3] * y[3], 0)
           [] x[4] = 0 /\ x[3] = 1 -> Fin(x[2] * y[2], y[3], x[2] * y[4])
           [] y[4] = 0 /\ y[3] = 1 -> Fin(x[2] * y[2], x[3], y[2] * x[4])

\* x / y.  A zero divisor is +0.0.
Div(x, y) ==
    IF IsNaN(x) \/ IsNaN(y) THEN NaN
    ELSE IF IsInf(y) THEN (IF IsInf(x) THEN NaN ELSE T(0))
    ELSE IF Sign(y) = 0
         THEN (IF Sign(x) = 0 THEN NaN ELSE Inf(Sign(x)))
    ELSE IF IsInf(x) THEN Inf(Sign(x) * Sign(y))
    ELSE CASE y[4] = 0 /\ x[4] = 0 -> Fin(x[2] * y[3], x[3] * y[2], 0)

\* std::abs
Abs(x) == IF IsNaN(x) THEN NaN ELSE IF Sign(x) < 0 THEN Neg(x) ELSE x

\* x > y: false when either side is NaN.
Gt(x, y) ==
    IF IsNaN(x) \/ IsNaN(y) THEN FALSE
    ELSE IF IsInf(x) /\ IsInf(y) THEN x[2] > y[2]
    ELSE IF IsInf(x) THEN x[2] > 0
    ELSE IF IsInf(y) THEN y[2] < 0
    ELSE \/ x[2] * y[3] > y[2] * x[3]
         \/ x[2] * y[3] = y[2] * x[3] /\ x[4] > y[4]

\* x <= y: false when either side is NaN.
Leq(x, y) == ~IsNaN(x) /\ ~IsNaN(y) /\ ~Gt(x, y)

\* x != y: true when either side is NaN.
Neq(x, y) == IsNaN(x) \/ IsNaN(y) \/ x # y

----------------------------------------------------------------------------
(* class row and class matrix.  A row is a function 0..Width-1 -> scalar,   *)
(* a matrix a function 0..Height-1 -> row.                                  *)

Height(m) == Cardinality(DOMAIN m)
Width(m) == Cardinality(DOMAIN m[0])

\* row::operator*=(rhs) and row::operator*(rhs): every element times rhs.
RowTimes(row, rhs) == [c \in DOMAIN row |-> Mul(row[c], rhs)]

\* row::operator+=(rhs): elementwise sum.
RowPlus(row, rhs) == [c \in DOMAIN row |-> Add(row[c], rhs[c])]

\* A mutant of swap_rows: row b is copied to row a and row a is lost.
swap_rows_OneWay(m, a, b) == [m EXCEPT ![a] = m[b]]

\* matrix::swap_rows(a, b)
swap_rows(m, a, b) == [m EXCEPT ![a] = m[b], ![b] = m[a]]

\* A mutant of horizontal_concat: the cells of rhs are written from column 0
\* on, over the cells of lhs, and the columns behind stay value-initialized.
horizontal_concat_NoOffset(lhs, rhs) ==
    [i \in DOMAIN lhs |->
        [c \in 0..(Width(lhs) + Width(rhs) - 1) |->
            IF c < Width(rhs) THEN rhs[i][c]
            ELSE IF c < Width(lhs) THEN lhs[i][c]
            ELSE T(0)]]

\* horizontal_concat(lhs, rhs): a matrix of Height rows and
\* LhsWidth + RhsWidth columns, value-initialized, then filled row by row:
\* concatenation[r][c] = lhs[r][c], concatenation[r][c+LhsWidth] = rhs[r][c].
horizontal_concat(lhs, rhs) ==
    [r \in DOMAIN lhs |->
        [c \in 0..(Width(lhs) + Width(rhs) - 1) |->
            IF c < Width(lhs) THEN lhs[r][c] ELSE rhs[r][c - Width(lhs)]]]

\* matrix::get_right_slice(): columns Width/2 .. Width-1.
get_right_slice(m) ==
    [r \in DOMAIN m |->
        [c \in 0..((Width(m) \div 2) - 1) |-> m[r][c + (Width(m) \div 2)]]]

\* A mutant of get_identity_matrix: the diagonal is never set.
get_identity_matrix_Unset(Size) ==
    [r \in 0..(Size - 1) |-> [c \in 0..(Size - 1) |-> T(0)]]

\* matrix::get_identity_matrix() of a Size x Size matrix.
get_identity_matrix(Size) ==
    [r \in 0..(Size - 1) |->
        [c \in 0..(Size - 1) |-> IF r = c THEN T(1) ELSE T(0)]]

\* The test of row_reduce for "no usable element": std::abs(x) <= equality_tolerance.
ZeroEquivalent(x) == Leq(Abs(x), equality_tolerance)

\* A mutant of the candidate test: column p of the candidate row is inspected.
UsablePivotRow_Column(m, p, s) == ~ZeroEquivalent(m[s][p])

\* Whether the pivot search for index p stops at candidate row s: the
\* candidate's own diagonal element (s,s) is not zero-equivalent.
UsablePivotRow(m, p, s) == ~ZeroEquivalent(m[s][s])

\* The pivot search of row_reduce for index p: from s, the first candidate
\* row the search stops at, or Height when there is none.
RECURSIVE PivotSearch(_, _, _)
PivotSearch(m, p, s) ==
    IF s < Height(m) /\ ~UsablePivotRow(m, p, s) THEN PivotSearch(m, p, s + 1) ELSE s

\* The number of candidate rows the pivot search for index p inspects
\* from s on: the evaluations of std::abs(storage[s][s]) in the condition
\* of its while loop.
RECURSIVE CandidatesInspected(_, _, _)
CandidatesInspected(m, p, s) ==
    IF s < Height(m)
    THEN 1 + (IF UsablePivotRow(m, p, s) THEN 0 ELSE CandidatesInspected(m, p, s + 1))
    ELSE 0

\* Normalize step: scale row p by the reciprocal of element (p,p) unless it is 1.
NormalizeRow(m, p) ==
    IF Neq(m[p][p], T(1))
    THEN [m EXCEPT ![p] = RowTimes(m[p], Div(T(1), m[p][p]))]
    ELSE m

\* Eliminate step: every row s # p with a non-zero element (s,p) gets
\* row p * -(s,p) added.  Row p does not change in the loop, so the rows
\* are independent of the loop's order.
EliminateColumn(m, p) ==
    [s \in DOMAIN m |->
        IF s # p /\ Neq(m[s][p], T(0))
        THEN RowPlus(m[s], RowTimes(m[p], Neg(m[s][p])))
        ELSE m[s]]

\* matrix::row_reduce() as one call, from iteration p on: the reduced
\* matrix, or the empty tuple when matrix_is_degenerate_error is thrown.
RECURSIVE row_reduce(_, _)
row_reduce(m, p) ==
    IF p = Height(m) THEN m
    ELSE IF ZeroEquivalent(m[p][p]) /\ PivotSearch(m, p, p + 1) = Height(m) THEN <<>>
    ELSE LET pivoted == IF ZeroEquivalent(m[p][p])
                        THEN swap_rows(m, p, PivotSearch(m, p, p + 1))
                        ELSE m
         IN  row_reduce(EliminateColumn(NormalizeRow(pivoted, p), p), p + 1)

\* Whether m.invert() throws: row_reduce of [m | identity] does.
invert_throws(m) ==
    row_reduce(horizontal_concat(m, get_identity_matrix(Height(m))), 0) = <<>>

\* std::inner_product(first1, last1, first2, init) over row a and column b,
\* from index i on: init + a[i]*b[i] + a[i+1]*b[i+1] + ...
RECURSIVE inner_product(_, _, _, _)
inner_product(a, b, i, init) ==
    IF i = Cardinality(DOMAIN a) THEN init
    ELSE inner_product(a, b, i + 1, Add(init, Mul(a[i], b[i])))

\* const_column_iterator: column c of m, read from row 0 down.
Column(m, c) == [i \in DOMAIN m |-> m[i][c]]

\* matrix::operator*: the local "product" has RhsHeight = Width(lhs) rows,
\* each cell the inner product of a row of lhs and a column of rhs.
multiply(lhs, rhs) ==
    [i \in 0..(Width(lhs) - 1) |->
        [c \in 0..(Width(rhs) - 1) |->
            inner_product(lhs[i], Column(rhs, c), 0, T(0))]]

\* operator==: false on a dimension mismatch, else false as soon as a cell
\* pair has abs(l - r) > tolerance or (r - l) > tolerance.
equals(lhs, rhs) ==
    /\ Height(lhs) = Height(rhs)
    /\ Width(lhs) = Width(rhs)
    /\ \A i \in DOMAIN lhs : \A c \in DOMAIN lhs[i] :
        /\ ~Gt(Abs(Sub(lhs[i][c], rhs[i][c])), equality_tolerance)
        /\ ~Gt(Sub(rhs[i][c], lhs[i][c]), equality_tolerance)

----------------------------------------------------------------------------
(* IEEE-754 double, bit for bit, for the arithmetic of the normalize step:  *)
(* T(1)/x and row *= k.  A positive double is a record                      *)
(*      [exp |-> e, bits |-> b]      the value  1.b[2]b[3]... * 2^e         *)
(* where b is the significand, most significant bit first, b[1] = 1, of at  *)
(* most SignificandBits bits and without trailing zeros; zero is DZero.     *)
(* Results are rounded to nearest, ties to even.  Exponents stay far from   *)
(* the ends of the double range, so nothing overflows or is subnormal.      *)

\* std::numeric_limits<double>::digits
SignificandBits == 53

DZero == [exp |-> 0, bits |-> <<>>]
DOne == [exp |-> 0, bits |-> <<1>>]

\* The binary digits of the natural number n, most significant first.
RECURSIVE IntBits(_)
IntBits(n) == IF n = 0 THEN <<>> ELSE Append(IntBits(n \div 2), n % 2)

\* The natural number whose binary digits are b (b of at most 30 digits).
RECURSIVE BitsInt(_)
BitsInt(b) ==
    IF b = <<>> THEN 0 ELSE 2 * BitsInt(SubSeq(b, 1, Len(b) - 1)) + b[Len(b)]

\* b without its trailing zeros (b holds a 1).
Trim(b) ==
    SubSeq(b, 1, CHOOSE k \in 1..Len(b) :
                    b[k] = 1 /\ \A i \in (k + 1)..Len(b) : b[i] = 0)

\* b + 1 on binary digits of a fixed length, b not all ones: the last 0
\* becomes 1 and the ones behind it become 0.
Increment(b) ==
    LET z == CHOOSE k \in 1..Len(b) :
                b[k] = 0 /\ \A i \in (k + 1)..Len(b) : b[i] = 1
    IN  [i \in 1..Len(b) |-> IF i < z THEN b[i] ELSE IF i = z THEN 1 ELSE 0]

\* The exact digits p, of any length, of a significand whose first digit
\* has weight 2^e, rounded to a double.
Round(p, e) ==
    IF Len(p) <= SignificandBits THEN [exp |-> e, bits |-> Trim(p)]
    ELSE LET kept == SubSeq(p, 1, SignificandBits)
             guard == p[SignificandBits + 1]
             sticky == \E i \in (SignificandBits + 2)..Len(p) : p[i] = 1
             up == guard = 1 /\ (sticky \/ kept[SignificandBits] = 1)
         IN  IF ~up THEN [exp |-> e, bits |-> Trim(kept)]
             ELSE IF \A i \in 1..SignificandBits : kept[i] = 1
                  THEN [exp |-> e + 1, bits |-> <<1>>]
                  ELSE [exp |-> e, bits |-> Trim(Increment(kept))]

\* The conversion of the integer n >= 0 to double (exact for these n).
DFromInt(n) ==
    IF n = 0 THEN DZero ELSE [exp |-> Len(IntBits(n)) - 1, bits |-> Trim(IntBits(n))]

\* 2^k
RECURSIVE Pow2(_)
Pow2(k) == IF k = 0 THEN 1 ELSE 2 * Pow2(k - 1)

\* The last n binary digits of the natural number v.
LowBits(v, n) == [i \in 1..n |-> (v \div Pow2(n - i)) % 2]

\* Long division: the next n digits of a quotient by m when the remainder
\* so far is rem < m, and the remainder after them; m has at most 14
\* digits, and at most 16 digits of the quotient are developed at a time.
RECURSIVE QuotientBits(_, _, _)
QuotientBits(rem, m, n) ==
    IF n <= 16
    THEN [digits |-> LowBits((rem * Pow2(n)) \div m, n), rem |-> (rem * Pow2(n)) % m]
    ELSE LET first == QuotientBits(rem, m, n \div 2)
             rest == QuotientBits(first.rem, m, n - (n \div 2))
         IN  [digits |-> first.digits \o rest.digits, rem |-> rest.rem]

\* T(1) / x for a double x > 0 whose significand m has at most 14 digits:
\* x = m * 2^(x.exp - (L-1)) with 2^(L-1) <= m < 2^L, so that
\* 1/x = (2^L / m) * 2^(-x.exp - 1) with 1 <= 2^L / m < 2, or 1/x = 2^(-x.exp)
\* when m = 1.  The quotient 2^L / m is developed to the guard digit, and
\* a last digit says whether a remainder is left.
DReciprocal(x) ==
    LET m == BitsInt(x.bits)
        L == Len(x.bits)
        q == QuotientBits(Pow2(L) - m, m, SignificandBits)
    IN  IF m = 1 THEN [exp |-> -x.exp, bits |-> <<1>>]
        ELSE Round(<<1>> \o q.digits \o (IF q.rem = 0 THEN <<0>> ELSE <<1>>),
                   -x.exp - 1)

\* The digits of m * b + carry below the weight of b's first digit, and
\* what is carried beyond them, for a natural number m of at most 14
\* digits and binary digits b; carry < m.  At most 16 digits of b are
\* multiplied at a time, the last ones first.
RECURSIVE TimesBits(_, _, _)
TimesBits(m, b, carry) ==
    IF Len(b) <= 16
    THEN [digits |-> LowBits(m * BitsInt(b) + carry, Len(b)),
          carry |-> (m * BitsInt(b) + carry) \div Pow2(Len(b))]
    ELSE LET h == Len(b) \div 2
             low == TimesBits(m, SubSeq(b, h + 1, Len(b)), carry)
             high == TimesBits(m, SubSeq(b, 1, h), low.carry)
         IN  [digits |-> high.digits \o low.digits, carry |-> high.carry]

\* x * y for doubles x, y >= 0, x with a significand of at most 14 digits.
DTimes(x, y) ==
    IF x = DZero \/ y = DZero THEN DZero
    ELSE LET t == TimesBits(BitsInt(x.bits), y.bits, 0)
             p == IntBits(t.carry) \o t.digits
         IN  Round(p, (x.exp - (Len(x.bits) - 1)) + (y.exp - (Len(y.bits) - 1))
                         + (Len(p) - 1))

\* std::abs(x) <= equality_tolerance for a double x >= 0.  The tolerance
\* 1e-11 lies between 2^-37 and 2^-36; the values tested here are zero or
\* at least 1.
DZeroEquivalent(x) == x = DZero \/ x.exp < -37

----------------------------------------------------------------------------
(* Inversion: invert() and get_inverse() of a square matrix, row_reduce     *)
(* one step (pivot acquisition, normalize, eliminate) at a time.            *)

VARIABLES
    self,       \* the receiver: the matrix invert / get_inverse is called on
    before,     \* the receiver as it was when the call was made
    op,         \* "none", "invert" or "get_inverse": the call in progress
    mtx,        \* get_inverse's local copy of the receiver
    aug,        \* invert's local augmented_matrix
    r,          \* row_reduce's loop index
    pc,         \* the call's position
    raisedAt,   \* the pivot index at which matrix_is_degenerate_error was thrown, or -1
    ret         \* the matrix get_inverse returned

invVars == <<self, before, op, mtx, aug, r, pc, raisedAt, ret>>

VARIABLES
    mulLhs,     \* operator*: the left operand (the receiver)
    mulRhs,     \* operator*: the right operand
    mulBefore,  \* the two operands as they were when operator* was called
    product,    \* operator*: the matrix returned
    mulPc       \* "idle", "returned", or "ill_formed": the call does not compile

mulVars == <<mulLhs, mulRhs, mulBefore, product, mulPc>>

VARIABLES
    eqLhs,      \* operator==: the left operand
    eqRhs,      \* operator==: the right operand
    eqResult    \* "none", or "true" / "false": what operator== returned

eqVars == <<eqLhs, eqRhs, eqResult>>

VARIABLES
    dims,       \* <<Height, Width>> of the matrix that is indexed
    mem,        \* memory, cell by cell: the matrix's storage, row after row
                \* (cells 0 .. Height*Width-1), then the memory behind it
    access      \* the last indexed access and what became of it

idxVars == <<dims, mem, access>>

VARIABLES
    catLhs,         \* horizontal_concat: the argument lhs
    catRhs,         \* horizontal_concat: the argument rhs
    catBefore,      \* the two arguments as they were when the call was made
    concatenation,  \* horizontal_concat: the matrix returned
    catPc           \* "idle" or "returned"

catVars == <<catLhs, catRhs, catBefore, concatenation, catPc>>

VARIABLES
    test_count,             \* benchmark main: how many tests to run
    thread_count,           \* benchmark main: std::thread::hardware_concurrency()
    singular_count,         \* std::atomic<unsigned>: inversions that returned
    degenerate_count,       \* std::atomic<unsigned>: inversions that threw
    inversion_time,         \* main's total of the workers' times, in clock ticks
    timer_mutex,            \* the thread that holds timer_mutex, or Unlocked
    pool,                   \* the number of threads main has put in the pool
    joined,                 \* the number of threads main has joined
    mainPc,                 \* main's position: "spawn", "join", "report", "exit"
    tpc,                    \* each worker thread's position
    remaining,              \* each worker's parameter test_count: trials left
    inversion_time_elapsed, \* each worker's local total (the lambda's "time")
    loaded,                 \* each worker's read of inversion_time in "+="
    reported                \* what main printed

benchVars == <<test_count, thread_count, singular_count, degenerate_count,
               inversion_time, timer_mutex, pool, joined, mainPc, tpc,
               remaining, inversion_time_elapsed, loaded, reported>>

VARIABLES
    dblSelf,    \* invert() in double arithmetic: the receiver, a square_matrix<1>
    dblBefore,  \* the receiver as it was when invert() was called
    dblAug,     \* invert's local augmented_matrix, a matrix<1, 2>
    dblR,       \* row_reduce's loop index
    dblPc       \* the call's position

dblVars == <<dblSelf, dblBefore, dblAug, dblR, dblPc>>

vars == <<invVars, mulVars, eqVars, idxVars, catVars, benchVars, dblVars>>

\* The variables that the operations of one group leave alone.
notInv == <<mulVars, eqVars, idxVars, catVars, benchVars, dblVars>>
notMul == <<invVars, eqVars, idxVars, catVars, benchVars, dblVars>>
notEq == <<invVars, mulVars, idxVars, catVars, benchVars, dblVars>>
notIdx == <<invVars, mulVars, eqVars, catVars, benchVars, dblVars>>
notCat == <<invVars, mulVars, eqVars, idxVars, benchVars, dblVars>>
notBench == <<invVars, mulVars, eqVars, idxVars, catVars, dblVars>>
notDbl == <<invVars, mulVars, eqVars, idxVars, catVars, benchVars>>

\* The empty matrix: the value of a local that does not exist (yet).
NoMatrix == <<>>

\* The square matrices of size N with integer cells from Entries.
SquareInputs(N) == [0..(N - 1) -> [0..(N - 1) -> {T(e) : e \in Entries}]]

InvInit ==
    /\ \E N \in 1..MaxSize : self \in SquareInputs(N)
    /\ before = self
    /\ op = "none"
    /\ mtx = NoMatrix
    /\ aug = NoMatrix
    /\ r = 0
    /\ pc = "idle"
    /\ raisedAt = -1
    /\ ret = NoMatrix

\* A mutant of Receiver: get_inverse runs invert() on the receiver itself.
Receiver_NoCopy == "self"

\* The object invert() runs on (its *this): the receiver of the call, or
\* get_inverse's copy mtx.
Receiver == IF op = "get_inverse" THEN "mtx" ELSE "self"

This == IF Receiver = "mtx" THEN mtx ELSE self

\* A caller calls self.invert().
CallInvert ==
    /\ pc = "idle"
    /\ op' = "invert"
    /\ pc' = "invert"
    /\ UNCHANGED <<self, before, mtx, aug, r, raisedAt, ret>>
    /\ UNCHANGED notInv

\* A caller calls self.get_inverse(): self_t mtx{*this}; mtx.invert();
CallGetInverse ==
    /\ pc = "idle"
    /\ op' = "get_inverse"
    /\ mtx' = self
    /\ pc' = "invert"
    /\ UNCHANGED <<self, before, aug, r, raisedAt, ret>>
    /\ UNCHANGED notInv

\* invert(): build the augmented matrix and enter row_reduce's loop.
InvertAugment ==
    /\ pc = "invert"
    /\ aug' = horizontal_concat(This, get_identity_matrix(Height(This)))
    /\ r' = 0
    /\ pc' = "pivot"
    /\ UNCHANGED <<self, before, op, mtx, raisedAt, ret>>
    /\ UNCHANGED notInv

\* A mutant of PivotAcquire: the throw path writes the right slice of the
\* half-reduced augmented matrix back to the receiver.
PivotAcquire_CommitsOnThrow ==
    /\ pc = "pivot"
    /\ IF ZeroEquivalent(aug[r][r])
       THEN LET s == PivotSearch(aug, r, r + 1)
            IN  IF s = Height(aug)
                THEN /\ pc' = "raised"
                     /\ raisedAt' = r
                     /\ aug' = aug
                     /\ self' = IF Receiver = "self" THEN get_right_slice(aug) ELSE self
                ELSE /\ pc' = "normalize"
                     /\ aug' = swap_rows(aug, r, s)
                     /\ UNCHANGED <<raisedAt, self>>
       ELSE /\ pc' = "normalize"
            /\ UNCHANGED <<aug, raisedAt, self>>
    /\ UNCHANGED <<before, op, mtx, r, ret>>
    /\ UNCHANGED notInv

\* row_reduce, iteration r: obtain a non-zero element at (r,r) or throw.
\* The exception leaves row_reduce, invert and get_inverse: none catches it.
PivotAcquire ==
    /\ pc = "pivot"
    /\ IF ZeroEquivalent(aug[r][r])
       THEN LET s == PivotSearch(aug, r, r + 1)
            IN  IF s = Height(aug)
                THEN /\ pc' = "raised"
                     /\ raisedAt' = r
                     /\ aug' = aug
                ELSE /\ pc' = "normalize"
                     /\ aug' = swap_rows(aug, r, s)
                     /\ raisedAt' = raisedAt
       ELSE /\ pc' = "normalize"
            /\ UNCHANGED <<aug, raisedAt>>
    /\ UNCHANGED <<self, before, op, mtx, r, ret>>
    /\ UNCHANGED notInv

\* row_reduce, iteration r: make element (r,r) 1.
Normalize ==
    /\ pc = "normalize"
    /\ aug' = NormalizeRow(aug, r)
    /\ pc' = "eliminate"
    /\ UNCHANGED <<self, before, op, mtx, r, raisedAt, ret>>
    /\ UNCHANGED notInv

\* A mutant of Eliminate: the loop index is not advanced.
Eliminate_NoAdvance ==
    /\ pc = "eliminate"
    /\ aug' = EliminateColumn(aug, r)
    /\ r' = r
    /\ pc' = IF r + 1 < Height(aug) THEN "pivot" ELSE "reduced"
    /\ UNCHANGED <<self, before, op, mtx, raisedAt, ret>>
    /\ UNCHANGED notInv

\* row_reduce, iteration r: clear column r in the other rows; ++r.
Eliminate ==
    /\ pc = "eliminate"
    /\ aug' = EliminateColumn(aug, r)
    /\ r' = r + 1
    /\ pc' = IF r + 1 < Height(aug) THEN "pivot" ELSE "reduced"
    /\ UNCHANGED <<self, before, op, mtx, raisedAt, ret>>
    /\ UNCHANGED notInv

\* invert(): *this = augmented_matrix.get_right_slice(); and, in
\* get_inverse, return mtx.
InvertAssign ==
    /\ pc = "reduced"
    /\ IF Receiver = "mtx"
       THEN /\ mtx' = get_right_slice(aug)
            /\ self' = self
       ELSE /\ self' = get_right_slice(aug)
            /\ mtx' = mtx
    /\ ret' = IF op = "get_inverse" THEN get_right_slice(aug) ELSE ret
    /\ pc' = "returned"
    /\ UNCHANGED <<before, op, aug, r, raisedAt>>
    /\ UNCHANGED notInv

InvNext ==
    \/ CallInvert
    \/ CallGetInverse
    \/ InvertAugment
    \/ PivotAcquire
    \/ Normalize
    \/ Eliminate
    \/ InvertAssign

\* No inversion is under way (the state of the inversion variables in the
\* specifications of the other operations).
InvIdle ==
    /\ self = NoMatrix
    /\ before = NoMatrix
    /\ op = "none"
    /\ mtx = NoMatrix
    /\ aug = NoMatrix
    /\ r = 0
    /\ pc = "idle"
    /\ raisedAt = -1
    /\ ret = NoMatrix

----------------------------------------------------------------------------
(* Multiplication: lhs * rhs, lhs of size H x W and rhs of size W x K.      *)

\* The H x W matrices with cells from the set S of scalars.
Matrices(H, W, S) == [0..(H - 1) -> [0..(W - 1) -> S]]

MulIdle ==
    /\ mulLhs = NoMatrix
    /\ mulRhs = NoMatrix
    /\ mulBefore = <<NoMatrix, NoMatrix>>
    /\ product = NoMatrix
    /\ mulPc = "idle"

MulInit ==
    /\ \E H \in 1..MaxDim, W \in 1..MaxDim, K \in 1..MaxDim :
        /\ mulLhs \in Matrices(H, W, {T(e) : e \in MulEntries})
        /\ mulRhs \in Matrices(W, K, {T(e) : e \in MulEntries})
    /\ mulBefore = <<mulLhs, mulRhs>>
    /\ product = NoMatrix
    /\ mulPc = "idle"

\* mulLhs * mulRhs.  The function returns matrix<Height, RhsWidth> and its
\* "return product;" hands it a matrix<Width, RhsWidth>: there is no
\* conversion between the two, so the call compiles only when
\* Height = Width.  Neither operand is written.
Multiply ==
    /\ mulPc = "idle"
    /\ IF Height(mulLhs) = Width(mulLhs)
       THEN /\ product' = multiply(mulLhs, mulRhs)
            /\ mulPc' = "returned"
       ELSE /\ product' = NoMatrix
            /\ mulPc' = "ill_formed"
    /\ UNCHANGED <<mulLhs, mulRhs, mulBefore>>
    /\ UNCHANGED notMul

MulNext == Multiply

----------------------------------------------------------------------------
(* Equality: lhs == rhs.                                                    *)

\* Cells of the operands of operator==: 0, 1, the tolerance, twice the
\* tolerance, minus the tolerance, NaN and +infinity.
EqScalars == {T(0), T(1), equality_tolerance, Fin(0, 1, 2), Fin(0, 1, -1), NaN, Inf(1)}

\* The operands of operator==: every shape of at most MaxEqCells cells.
EqOperands ==
    UNION {Matrices(H, W, EqScalars) :
             <<H, W>> \in {d \in (1..MaxDim) \X (1..MaxDim) : d[1] * d[2] <= MaxEqCells}}

EqIdle ==
    /\ eqLhs = NoMatrix
    /\ eqRhs = NoMatrix
    /\ eqResult = "none"

EqInit ==
    /\ eqLhs \in EqOperands
    /\ eqRhs \in EqOperands
    /\ eqResult = "none"

\* eqLhs == eqRhs
Compare ==
    /\ eqResult = "none"
    /\ eqResult' = IF equals(eqLhs, eqRhs) THEN "true" ELSE "false"
    /\ UNCHANGED <<eqLhs, eqRhs>>
    /\ UNCHANGED notEq

EqNext == Compare

----------------------------------------------------------------------------
(* Indexed access: matrix[y][x] through matrix::operator[] and              *)
(* row::operator[], and the row constructor's storage[c++] = ...            *)
(* std::array::operator[] checks nothing: an index past the end is          *)
(* undefined behaviour.  Its outcomes here: the access goes to the cell     *)
(* at the computed address y*Width + x, which is a cell of another row or   *)
(* memory behind the matrix ("stray"), or the program is stopped, as a      *)
(* build with library assertions does ("trap").                             *)

NoAccess == [kind |-> "none", y |-> 0, x |-> 0, outcome |-> "none", addr |-> -1]

\* The number of memory cells: the matrix and behind it as many cells as
\* the largest index tried, (Height, Width), can reach.
MemCells(H, W) == H * W + W + 1

IdxIdle ==
    /\ dims = <<0, 0>>
    /\ mem = <<>>
    /\ access = NoAccess

IdxInit ==
    /\ dims \in (1..MaxDim) \X (1..MaxDim)
    /\ mem \in [0..(MemCells(dims[1], dims[2]) - 1) -> {T(e) : e \in Entries}]
    /\ access = NoAccess

InRange(y, x) == y < dims[1] /\ x < dims[2]

\* The address of element x of row y: rows are stored one after another.
Address(y, x) == y * dims[2] + x

\* A read of matrix[y][x], y in 0..Height and x in 0..Width.
ReadCell ==
    \E y \in 0..dims[1], x \in 0..dims[2] :
        /\ \/ /\ InRange(y, x)
              /\ access' = [kind |-> "read", y |-> y, x |-> x,
                            outcome |-> "ok", addr |-> Address(y, x)]
           \/ /\ ~InRange(y, x)
              /\ access' = [kind |-> "read", y |-> y, x |-> x,
                            outcome |-> "stray", addr |-> Address(y, x)]
           \/ /\ ~InRange(y, x)
              /\ access' = [kind |-> "read", y |-> y, x |-> x,
                            outcome |-> "trap", addr |-> -1]
        /\ UNCHANGED <<dims, mem>>
        /\ UNCHANGED notIdx

\* A write matrix[y][x] = v.
WriteCell ==
    \E y \in 0..dims[1], x \in 0..dims[2], v \in {T(e) : e \in Entries} :
        /\ \/ /\ InRange(y, x)
              /\ mem' = [mem EXCEPT ![Address(y, x)] = v]
              /\ access' = [kind |-> "write", y |-> y, x |-> x,
                            outcome |-> "ok", addr |-> Address(y, x)]
           \/ /\ ~InRange(y, x)
              /\ mem' = [mem EXCEPT ![Address(y, x)] = v]
              /\ access' = [kind |-> "write", y |-> y, x |-> x,
                            outcome |-> "stray", addr |-> Address(y, x)]
           \/ /\ ~InRange(y, x)
              /\ mem' = mem
              /\ access' = [kind |-> "write", y |-> y, x |-> x,
                            outcome |-> "trap", addr |-> -1]
        /\ UNCHANGED dims
        /\ UNCHANGED notIdx

\* The addresses of the cells of row y.
RowCells(y) == Address(y, 0)..Address(y, dims[2] - 1)

\* Row y built from an initializer list of n cells, n in 1..Width+1:
\* storage[c++] = T(init_col) for each of them, the rest left zero.  The
\* cell Width of a row does not exist: the write of cell n-1 = Width goes
\* to some cell outside the row, or the program is stopped.
ConstructRow ==
    \E y \in 0..(dims[1] - 1), n \in 1..(dims[2] + 1), v \in {T(e) : e \in Entries} :
        LET built == [a \in DOMAIN mem |->
                        IF a \in RowCells(y)
                        THEN (IF a < Address(y, n) THEN v ELSE T(0))
                        ELSE mem[a]]
        IN  /\ \/ /\ n <= dims[2]
                  /\ mem' = built
                  /\ access' = [kind |-> "construct", y |-> y, x |-> n - 1,
                                outcome |-> "ok", addr |-> Address(y, n - 1)]
               \/ /\ n > dims[2]
                  /\ \E a \in DOMAIN mem \ RowCells(y) :
                        /\ mem' = [built EXCEPT ![a] = v]
                        /\ access' = [kind |-> "construct", y |-> y, x |-> n - 1,
                                      outcome |-> "stray", addr |-> a]
               \/ /\ n > dims[2]
                  /\ mem' = mem
                  /\ access' = [kind |-> "construct", y |-> y, x |-> n - 1,
                                outcome |-> "trap", addr |-> -1]
            /\ UNCHANGED dims
            /\ UNCHANGED notIdx

IdxNext ==
    \/ ReadCell
    \/ WriteCell
    \/ ConstructRow

----------------------------------------------------------------------------
(* Concatenation: horizontal_concat(lhs, rhs), lhs of size H x LhsWidth     *)
(* and rhs of size H x RhsWidth.                                            *)

CatIdle ==
    /\ catLhs = NoMatrix
    /\ catRhs = NoMatrix
    /\ catBefore = <<NoMatrix, NoMatrix>>
    /\ concatenation = NoMatrix
    /\ catPc = "idle"

CatInit ==
    /\ \E H \in 1..MaxDim, LhsWidth \in 1..MaxDim, RhsWidth \in 1..MaxDim :
        /\ catLhs \in Matrices(H, LhsWidth, {T(e) : e \in Entries})
        /\ catRhs \in Matrices(H, RhsWidth, {T(e) : e \in Entries})
    /\ catBefore = <<catLhs, catRhs>>
    /\ concatenation = NoMatrix
    /\ catPc = "idle"

\* horizontal_concat(catLhs, catRhs): both arguments are const references,
\* the result is a local returned by value.
Concat ==
    /\ catPc = "idle"
    /\ concatenation' = horizontal_concat(catLhs, catRhs)
    /\ catPc' = "returned"
    /\ UNCHANGED <<catLhs, catRhs, catBefore>>
    /\ UNCHANGED notCat

CatNext == Concat

----------------------------------------------------------------------------
(* The multi-threaded benchmark: main starts thread_count workers, each     *)
(* worker runs time_random_matrices(test_count/thread_count, ...) and adds  *)
(* its time to inversion_time under timer_mutex; main joins them and        *)
(* prints.  A step is one access to shared memory, or the code between two: *)
(* operator++ of std::atomic is one indivisible read-modify-write, and      *)
(* "inversion_time += time" is a read and a later write.  Times are whole   *)
(* clock ticks.  The counters are unsigned 32-bit; test_count is far below  *)
(* 2^32, so they never wrap.                                                *)

\* std::mutex timer_mutex that no thread holds.
Unlocked == -1

Threads == 0..(thread_count - 1)

\* The first argument of time_random_matrices: test_count/thread_count,
\* an unsigned division, evaluated by a worker (so thread_count > 0).
Quota == test_count \div thread_count

NoReport == [singular |-> -1, degenerate |-> -1, total |-> -1, divisor |-> -1]

BenchIdle ==
    /\ test_count = 0
    /\ thread_count = 0
    /\ singular_count = 0
    /\ degenerate_count = 0
    /\ inversion_time = 0
    /\ timer_mutex = Unlocked
    /\ pool = 0
    /\ joined = 0
    /\ mainPc = "idle"
    /\ tpc = <<>>
    /\ remaining = <<>>
    /\ inversion_time_elapsed = <<>>
    /\ loaded = <<>>
    /\ reported = NoReport

\* main, lines 156-167: hardware_concurrency() returns the number of
\* hardware threads, or 0 when it cannot tell.
BenchInit ==
    /\ test_count \in 1..MaxTests
    /\ thread_count \in 0..MaxThreads
    /\ singular_count = 0
    /\ degenerate_count = 0
    /\ inversion_time = 0
    /\ timer_mutex = Unlocked
    /\ pool = 0
    /\ joined = 0
    /\ mainPc = "spawn"
    /\ tpc = [t \in Threads |-> "unstarted"]
    /\ remaining = [t \in Threads |-> 0]
    /\ inversion_time_elapsed = [t \in Threads |-> 0]
    /\ loaded = [t \in Threads |-> 0]
    /\ reported = NoReport

\* main: one iteration of "for (t < thread_count) pool.emplace_back(...)",
\* or the end of that loop.
Spawn ==
    /\ mainPc = "spawn"
    /\ IF pool < thread_count
       THEN /\ tpc' = [tpc EXCEPT ![pool] = "started"]
            /\ pool' = pool + 1
            /\ mainPc' = mainPc
       ELSE /\ mainPc' = "join"
            /\ UNCHANGED <<tpc, pool>>
    /\ UNCHANGED <<test_count, thread_count, singular_count, degenerate_count,
                   inversion_time, timer_mutex, joined, remaining,
                   inversion_time_elapsed, loaded, reported>>
    /\ UNCHANGED notBench

\* Worker t enters time_random_matrices(test_count/thread_count, ...).
Enter(t) ==
    /\ tpc[t] = "started"
    /\ remaining' = [remaining EXCEPT ![t] = Quota]
    /\ inversion_time_elapsed' = [inversion_time_elapsed EXCEPT ![t] = 0]
    /\ tpc' = [tpc EXCEPT ![t] = "while"]
    /\ UNCHANGED <<test_count, thread_count, singular_count, degenerate_count,
                   inversion_time, timer_mutex, pool, joined, mainPc, loaded, reported>>
    /\ UNCHANGED notBench

\* Worker t: "while (test_count-- > 0)".  When the loop goes on, the next
\* matrix is populated and the clock is read; when it ends, the function
\* returns its total (the parameter's wrapped value is not read again).
While(t) ==
    /\ tpc[t] = "while"
    /\ IF remaining[t] > 0
       THEN /\ remaining' = [remaining EXCEPT ![t] = remaining[t] - 1]
            /\ tpc' = [tpc EXCEPT ![t] = "try"]
       ELSE /\ remaining' = remaining
            /\ tpc' = [tpc EXCEPT ![t] = "lock"]
    /\ UNCHANGED <<test_count, thread_count, singular_count, degenerate_count,
                   inversion_time, timer_mutex, pool, joined, mainPc,
                   inversion_time_elapsed, loaded, reported>>
    /\ UNCHANGED notBench

\* Worker t: matrix.invert() on the random matrix, which returns or throws
\* matrix_is_degenerate_error into the catch clause.
Try(t) ==
    /\ tpc[t] = "try"
    /\ \E matrix \in SquareInputs(BenchSize) :
          tpc' = [tpc EXCEPT ![t] = IF invert_throws(matrix) THEN "caught" ELSE "returned"]
    /\ UNCHANGED <<test_count, thread_count, singular_count, degenerate_count,
                   inversion_time, timer_mutex, pool, joined, mainPc, remaining,
                   inversion_time_elapsed, loaded, reported>>
    /\ UNCHANGED notBench

\* A mutant of CountSingular: an increment that is not atomic, which is
\* lost when another worker is incrementing the same counter.
CountSingular_NotAtomic(t) ==
    /\ tpc[t] = "returned"
    /\ singular_count' = IF \E u \in Threads \ {t} : tpc[u] = "returned"
                         THEN singular_count
                         ELSE singular_count + 1
    /\ tpc' = [tpc EXCEPT ![t] = "timed"]
    /\ UNCHANGED <<test_count, thread_count, degenerate_count,
                   inversion_time, timer_mutex, pool, joined, mainPc, remaining,
                   inversion_time_elapsed, loaded, reported>>
    /\ UNCHANGED notBench

\* Worker t: ++singular_count after invert() returned.
CountSingular(t) ==
    /\ tpc[t] = "returned"
    /\ singular_count' = singular_count + 1
    /\ tpc' = [tpc EXCEPT ![t] = "timed"]
    /\ UNCHANGED <<test_count, thread_count, degenerate_count,
                   inversion_time, timer_mutex, pool, joined, mainPc, remaining,
                   inversion_time_elapsed, loaded, reported>>
    /\ UNCHANGED notBench

\* Worker t: ++degenerate_count in the catch clause.
CountDegenerate(t) ==
    /\ tpc[t] = "caught"
    /\ degenerate_count' = degenerate_count + 1
    /\ tpc' = [tpc EXCEPT ![t] = "timed"]
    /\ UNCHANGED <<test_count, thread_count, singular_count,
                   inversion_time, timer_mutex, pool, joined, mainPc, remaining,
                   inversion_time_elapsed, loaded, reported>>
    /\ UNCHANGED notBench

\* Worker t: the clock is read again and inversion_time_elapsed += (end-start).
Accumulate(t) ==
    /\ tpc[t] = "timed"
    /\ \E d \in Durations :
          inversion_time_elapsed' =
              [inversion_time_elapsed EXCEPT ![t] = inversion_time_elapsed[t] + d]
    /\ tpc' = [tpc EXCEPT ![t] = "while"]
    /\ UNCHANGED <<test_count, thread_count, singular_count, degenerate_count,
                   inversion_time, timer_mutex, pool, joined, mainPc, remaining,
                   loaded, reported>>
    /\ UNCHANGED notBench

\* A mutant of Lock: the worker goes on without waiting for the mutex.
Lock_NoWait(t) ==
    /\ tpc[t] = "lock"
    /\ timer_mutex' = t
    /\ tpc' = [tpc EXCEPT ![t] = "load"]
    /\ UNCHANGED <<test_count, thread_count, singular_count, degenerate_count,
                   inversion_time, pool, joined, mainPc, remaining,
                   inversion_time_elapsed, loaded, reported>>
    /\ UNCHANGED notBench

\* Worker t: std::lock_guard<std::mutex> lock(timer_mutex), which waits
\* until no thread holds the mutex.
Lock(t) ==
    /\ tpc[t] = "lock"
    /\ timer_mutex = Unlocked
    /\ timer_mutex' = t
    /\ tpc' = [tpc EXCEPT ![t] = "load"]
    /\ UNCHANGED <<test_count, thread_count, singular_count, degenerate_count,
                   inversion_time, pool, joined, mainPc, remaining,
                   inversion_time_elapsed, loaded, reported>>
    /\ UNCHANGED notBench

\* Worker t: "inversion_time += time", the read of inversion_time.
Load(t) ==
    /\ tpc[t] = "load"
    /\ loaded' = [loaded EXCEPT ![t] = inversion_time]
    /\ tpc' = [tpc EXCEPT ![t] = "store"]
    /\ UNCHANGED <<test_count, thread_count, singular_count, degenerate_count,
                   inversion_time, timer_mutex, pool, joined, mainPc, remaining,
                   inversion_time_elapsed, reported>>
    /\ UNCHANGED notBench

\* Worker t: "inversion_time += time", the write of the sum.
Store(t) ==
    /\ tpc[t] = "store"
    /\ inversion_time' = loaded[t] + inversion_time_elapsed[t]
    /\ tpc' = [tpc EXCEPT ![t] = "unlock"]
    /\ UNCHANGED <<test_count, thread_count, singular_count, degenerate_count,
                   timer_mutex, pool, joined, mainPc, remaining,
                   inversion_time_elapsed, loaded, reported>>
    /\ UNCHANGED notBench

\* Worker t: the lock_guard is destroyed at the end of the lambda and the
\* thread ends.
Unlock(t) ==
    /\ tpc[t] = "unlock"
    /\ timer_mutex' = Unlocked
    /\ tpc' = [tpc EXCEPT ![t] = "finished"]
    /\ UNCHANGED <<test_count, thread_count, singular_count, degenerate_count,
                   inversion_time, pool, joined, mainPc, remaining,
                   inversion_time_elapsed, loaded, reported>>
    /\ UNCHANGED notBench

\* main: one iteration of "for (auto& t : pool) t.join()", which waits for
\* that thread to end, or the end of that loop.
Join ==
    /\ mainPc = "join"
    /\ IF joined < thread_count
       THEN /\ tpc[joined] = "finished"
            /\ joined' = joined + 1
            /\ mainPc' = mainPc
       ELSE /\ mainPc' = "report"
            /\ joined' = joined
    /\ UNCHANGED <<test_count, thread_count, singular_count, degenerate_count,
                   inversion_time, timer_mutex, pool, tpc, remaining,
                   inversion_time_elapsed, loaded, reported>>
    /\ UNCHANGED notBench

\* main: the counters and the total are read and printed, the average as
\* inversion_time.count() / test_count.
Report ==
    /\ mainPc = "report"
    /\ reported' = [singular |-> singular_count, degenerate |-> degenerate_count,
                    total |-> inversion_time, divisor |-> test_count]
    /\ mainPc' = "exit"
    /\ UNCHANGED <<test_count, thread_count, singular_count, degenerate_count,
                   inversion_time, timer_mutex, pool, joined, tpc, remaining,
                   inversion_time_elapsed, loaded>>
    /\ UNCHANGED notBench

BenchNext ==
    \/ Spawn
    \/ Join
    \/ Report
    \/ \E t \in Threads : Enter(t)
    \/ \E t \in Threads : While(t)
    \/ \E t \in Threads : Try(t)
    \/ \E t \in Threads : CountSingular(t)
    \/ \E t \in Threads : CountDegenerate(t)
    \/ \E t \in Threads : Accumulate(t)
    \/ \E t \in Threads : Lock(t)
    \/ \E t \in Threads : Load(t)
    \/ \E t \in Threads : Store(t)
    \/ \E t \in Threads : Unlock(t)

----------------------------------------------------------------------------
(* invert() of a square_matrix<1> whose cell is an integer 0..MaxCell, in   *)
(* double arithmetic bit for bit: the augmented matrix is [x | 1], a        *)
(* matrix<1, 2>, and row_reduce runs its one iteration on it.               *)

DblIdle ==
    /\ dblSelf = NoMatrix
    /\ dblBefore = NoMatrix
    /\ dblAug = NoMatrix
    /\ dblR = 0
    /\ dblPc = "idle"

\* A caller has built the matrix and calls invert() on it.
DblInit ==
    /\ \E x \in 0..MaxCell : dblSelf = [i \in {0} |-> [c \in {0} |-> DFromInt(x)]]
    /\ dblBefore = dblSelf
    /\ dblAug = NoMatrix
    /\ dblR = 0
    /\ dblPc = "invert"

\* invert(): horizontal_concat(*this, get_identity_matrix()), and
\* row_reduce is entered.
DblAugment ==
    /\ dblPc = "invert"
    /\ dblAug' = horizontal_concat(dblSelf, [i \in {0} |-> [c \in {0} |-> DOne]])
    /\ dblR' = 0
    /\ dblPc' = "pivot"
    /\ UNCHANGED <<dblSelf, dblBefore>>
    /\ UNCHANGED notDbl

\* row_reduce, iteration r: the test of (r,r), the search from s = r+1 on
\* for a row with a usable diagonal element, and the throw or the swap.
DblPivotAcquire ==
    /\ dblPc = "pivot"
    /\ IF DZeroEquivalent(dblAug[dblR][dblR])
       THEN LET usable == {k \in (dblR + 1)..(Height(dblAug) - 1) :
                             ~DZeroEquivalent(dblAug[k][k])}
            IN  IF usable = {}
                THEN /\ dblPc' = "raised"
                     /\ dblAug' = dblAug
                ELSE /\ dblPc' = "normalize"
                     /\ dblAug' = swap_rows(dblAug, dblR,
                                     CHOOSE k \in usable : \A j \in usable : k <= j)
       ELSE /\ dblPc' = "normalize"
            /\ dblAug' = dblAug
    /\ UNCHANGED <<dblSelf, dblBefore, dblR>>
    /\ UNCHANGED notDbl

\* row_reduce, iteration r: if (r,r) != T(1), row r *= T(1)/(r,r), which
\* multiplies every element of the row by the rounded reciprocal.
DblNormalize ==
    /\ dblPc = "normalize"
    /\ dblAug' =
          IF dblAug[dblR][dblR] # DOne
          THEN [dblAug EXCEPT ![dblR] =
                  [c \in DOMAIN dblAug[dblR] |->
                      DTimes(dblAug[dblR][c], DReciprocal(dblAug[dblR][dblR]))]]
          ELSE dblAug
    /\ dblPc' = "eliminate"
    /\ UNCHANGED <<dblSelf, dblBefore, dblR>>
    /\ UNCHANGED notDbl

\* row_reduce, iteration r: the loop over the rows s != r, of which a
\* matrix of Height 1 has none; ++r.
DblEliminate ==
    /\ dblPc = "eliminate"
    /\ Height(dblAug) = 1
    /\ dblAug' = dblAug
    /\ dblR' = dblR + 1
    /\ dblPc' = IF dblR + 1 < Height(dblAug) THEN "pivot" ELSE "reduced"
    /\ UNCHANGED <<dblSelf, dblBefore>>
    /\ UNCHANGED notDbl

\* invert(): *this = augmented_matrix.get_right_slice();
DblAssign ==
    /\ dblPc = "reduced"
    /\ dblSelf' = get_right_slice(dblAug)
    /\ dblPc' = "returned"
    /\ UNCHANGED <<dblBefore, dblAug, dblR>>
    /\ UNCHANGED notDbl

DblNext ==
    \/ DblAugment
    \/ DblPivotAcquire
    \/ DblNormalize
    \/ DblEliminate
    \/ DblAssign

----------------------------------------------------------------------------
(* The specifications: one per group of operations.                        *)

Init == InvInit /\ MulIdle /\ EqIdle /\ IdxIdle /\ CatIdle /\ BenchIdle /\ DblIdle

Next == InvNext

Spec == Init /\ [][Next]_vars

\* The steps of a call that has been made: the code runs without
\* suspension points, so a call that can take a step does take it.
CallSteps ==
    \/ InvertAugment
    \/ PivotAcquire
    \/ Normalize
    \/ Eliminate
    \/ InvertAssign

SpecTerm == Init /\ [][Next]_vars /\ WF_vars(CallSteps)

InitMul == InvIdle /\ MulInit /\ EqIdle /\ IdxIdle /\ CatIdle /\ BenchIdle /\ DblIdle

SpecMul == InitMul /\ [][MulNext]_vars

InitEq == InvIdle /\ MulIdle /\ EqInit /\ IdxIdle /\ CatIdle /\ BenchIdle /\ DblIdle

SpecEq == InitEq /\ [][EqNext]_vars

InitIdx == InvIdle /\ MulIdle /\ EqIdle /\ IdxInit /\ CatIdle /\ BenchIdle /\ DblIdle

SpecIdx == InitIdx /\ [][IdxNext]_vars

InitCat == InvIdle /\ MulIdle /\ EqIdle /\ IdxIdle /\ CatInit /\ BenchIdle /\ DblIdle

SpecCat == InitCat /\ [][CatNext]_vars

InitBench == InvIdle /\ MulIdle /\ EqIdle /\ IdxIdle /\ CatIdle /\ BenchInit /\ DblIdle

SpecBench == InitBench /\ [][BenchNext]_vars

InitDbl == InvIdle /\ MulIdle /\ EqIdle /\ IdxIdle /\ CatIdle /\ BenchIdle /\ DblInit

SpecDbl == InitDbl /\ [][DblNext]_vars

----------------------------------------------------------------------------
(* Properties of inversion.                                                *)

\* The call has ended: it returned or it threw.
Ended == pc \in {"returned", "raised"}

\* identity(N): 1 on the diagonal, 0 elsewhere, written out cell by cell.
UnitMatrix(N) ==
    [i \in 0..(N - 1) |->
        [j \in 0..(N - 1) |-> IF i = j THEN <<"fin", 1, 1, 0>> ELSE <<"fin", 0, 1, 0>>]]

\* m without row i and column j.
Minor(m, i, j) ==
    [a \in 0..(Height(m) - 2) |->
        [b \in 0..(Height(m) - 2) |->
            m[IF a < i THEN a ELSE a + 1][IF b < j THEN b ELSE b + 1]]]

\* The determinant of a square matrix of integers, by expansion along row 0.
RECURSIVE Det(_), CofactorSum(_, _)
Det(m) == IF Height(m) = 1 THEN m[0][0][2] ELSE CofactorSum(m, 0)
CofactorSum(m, j) ==
    IF j = Height(m) THEN 0
    ELSE (IF j % 2 = 0 THEN 1 ELSE -1) * m[0][j][2] * Det(Minor(m, 0, j))
         + CofactorSum(m, j + 1)

\* C1 (as claimed): for every invertible N x N matrix A, get_inverse()
\* returns, and A * A.get_inverse() and A.get_inverse() * A both compare
\* equal to identity(N) under operator==.
C1_InverseOfInvertible ==
    (op = "get_inverse" /\ Ended /\ Det(before) # 0)
        => /\ pc = "returned"
           /\ equals(multiply(before, ret), UnitMatrix(Height(before)))
           /\ equals(multiply(ret, before), UnitMatrix(Height(before)))

\* C2 (as claimed): for every singular square matrix, invert() and
\* get_inverse() end by raising the degenerate-matrix error.
C2_SingularRaises ==
    (Ended /\ Det(before) = 0) => pc = "raised"

\* Every diagonal element (s,s) of m with p <= s < Height is zero-equivalent.
DiagonalTailZero(m, p) ==
    \A s \in p..(Height(m) - 1) : Leq(Abs(m[s][s]), equality_tolerance)

\* The invertible 2 x 2 swap matrix [[0,1],[1,0]].
SwapMatrix == [i \in 0..1 |-> [j \in 0..1 |-> IF i = j THEN T(0) ELSE T(1)]]

\* C3: the pivot step of row_reduce at index r raises the degenerate-matrix
\* error exactly when, in the current partially reduced matrix, (r,r) and
\* every later diagonal element (s,s) are zero-equivalent; the error is
\* raised nowhere else, at that index and with the matrix as it was; and
\* the swap matrix [[0,1],[1,0]] raises at index 0.
C3_RaisesExactlyOnZeroDiagonalTail ==
    [][ /\ pc = "pivot" => (pc' = "raised" <=> DiagonalTailZero(aug, r))
        /\ (pc' = "raised" /\ pc # "raised")
              => (pc = "pivot" /\ raisedAt' = r /\ aug' = aug)
        /\ (pc = "pivot" /\ before = SwapMatrix) => (pc' = "raised" /\ r = 0)
      ]_vars

\* C3's case: the error raised at a pivot index after the first, in a
\* matrix that earlier iterations have changed.
C3_Witness ==
    /\ pc = "raised"
    /\ raisedAt > 0
    /\ aug # horizontal_concat(before, UnitMatrix(Height(before)))

\* C4: get_inverse() never changes its receiver: at every point of the
\* call, and after it returned or raised, the receiver is cell for cell
\* what it was before the call.
C4_GetInverseKeepsReceiver ==
    op = "get_inverse" => self = before

\* C4's case: get_inverse has returned a matrix that differs from the receiver.
C4_Witness ==
    op = "get_inverse" /\ pc = "returned" /\ ret # before

\* C5 (as claimed): when invert() raises, the receiver has been changed in
\* place and is no longer what it was before the call.
C5_FailedInvertChangedReceiver ==
    (op = "invert" /\ pc = "raised") => self # before

\* C5 (amended): when invert() raises, the receiver is what it was before
\* the call; row_reduce changed only invert's local augmented matrix.
C5_FailedInvertKeepsReceiver ==
    (op = "invert" /\ pc = "raised") => self = before

\* C5's case: invert() raised after row_reduce had changed the augmented matrix.
C5_Witness ==
    /\ op = "invert"
    /\ pc = "raised"
    /\ get_right_slice(aug) # UnitMatrix(Height(before))

\* C6 (as claimed): whenever row_reduce returns without raising, every
\* column i < Height is a unit column: (i,i) is 1 and (j,i) is 0 for j # i.
C6_ReducedIsUnitDiagonal ==
    pc = "reduced" =>
        \A i \in DOMAIN aug :
            /\ aug[i][i] = T(1)
            /\ \A j \in DOMAIN aug \ {i} : aug[j][i] = T(0)

\* C7: the identity matrix is its own inverse for every size N:
\* identity(N).get_inverse() returns, and returns identity(N).
C7_IdentityIsOwnInverse ==
    (op = "get_inverse" /\ Ended /\ before = UnitMatrix(Height(before)))
        => (pc = "returned" /\ ret = UnitMatrix(Height(before)))

\* C7's case: get_inverse has returned on the largest identity matrix.
C7_Witness ==
    /\ op = "get_inverse"
    /\ pc = "returned"
    /\ before = UnitMatrix(MaxSize)

----------------------------------------------------------------------------
(* Properties of multiplication, equality and indexed access.              *)

\* The sum over k in 0..n-1 of a[i][k] * b[k][c].
RECURSIVE CellSum(_, _, _, _, _)
CellSum(a, b, i, c, n) ==
    IF n = 0 THEN <<"fin", 0, 1, 0>>
    ELSE Add(CellSum(a, b, i, c, n - 1), Mul(a[i][n - 1], b[n - 1][c]))

\* C8 (as claimed): for lhs of size H x W and rhs of size W x K, also when
\* H # W, lhs * rhs returns an H x K matrix whose cell (i,c) is the sum
\* over k of lhs[i][k] * rhs[k][c], and neither operand is modified.
C8_ProductIsRowsByColumns ==
    mulPc # "idle" =>
        /\ mulPc = "returned"
        /\ DOMAIN product = DOMAIN mulLhs
        /\ \A i \in DOMAIN product :
              /\ DOMAIN product[i] = DOMAIN mulRhs[0]
              /\ \A c \in DOMAIN product[i] :
                    product[i][c] = CellSum(mulLhs, mulRhs, i, c, Width(mulLhs))
        /\ <<mulLhs, mulRhs>> = mulBefore

\* Two cells differ in absolute value by at most the tolerance.
WithinTolerance(x, y) ==
    /\ ~IsNaN(x)
    /\ ~IsNaN(y)
    /\ \/ x = y
       \/ IsFin(x) /\ IsFin(y) /\ Leq(Abs(Sub(x, y)), equality_tolerance)

\* C9 (as claimed): operator== is reflexive and symmetric; two matrices of
\* the same dimensions compare equal exactly when every pair of
\* corresponding cells differs in absolute value by at most the tolerance
\* (a difference of exactly the tolerance is equal); matrices of different
\* dimensions compare not equal.
C9_EqualIffCellsWithinTolerance ==
    eqResult # "none" =>
        /\ (eqLhs = eqRhs) => eqResult = "true"
        /\ (eqResult = "true") <=> equals(eqRhs, eqLhs)
        /\ (eqResult = "true") <=>
              /\ DOMAIN eqLhs = DOMAIN eqRhs
              /\ DOMAIN eqLhs[0] = DOMAIN eqRhs[0]
              /\ \A i \in DOMAIN eqLhs : \A c \in DOMAIN eqLhs[i] :
                    WithinTolerance(eqLhs[i][c], eqRhs[i][c])

\* C10 (as claimed): an indexed access with a row index outside
\* [0,Height) or a column index outside [0,Width) is stopped by a guard
\* and reads or writes no cell.
C10_OutOfRangeAccessIsGuarded ==
    (access.kind # "none" /\ ~InRange(access.y, access.x))
        => (access.outcome = "trap" /\ access.addr = -1)

----------------------------------------------------------------------------
(* Properties of concatenation.                                            *)

\* C11: horizontal_concat(lhs, rhs) of two matrices of the same Height
\* returns a matrix of that Height and of width lhs.Width + rhs.Width in
\* which, in every row, columns [0, lhs.Width) are that row of lhs and
\* columns [lhs.Width, lhs.Width + rhs.Width) are that row of rhs; lhs and
\* rhs are unchanged.
C11_ConcatIsLhsThenRhs ==
    catPc = "returned" =>
        /\ DOMAIN concatenation = DOMAIN catBefore[1]
        /\ \A i \in DOMAIN concatenation :
              /\ DOMAIN concatenation[i] =
                    0..(Cardinality(DOMAIN catBefore[1][0])
                        + Cardinality(DOMAIN catBefore[2][0]) - 1)
              /\ \A c \in DOMAIN catBefore[1][i] :
                    concatenation[i][c] = catBefore[1][i][c]
              /\ \A c \in DOMAIN catBefore[2][i] :
                    concatenation[i][c + Cardinality(DOMAIN catBefore[1][0])]
                        = catBefore[2][i][c]
        /\ catLhs = catBefore[1]
        /\ catRhs = catBefore[2]

\* C11's case: the concatenation of two matrices of more than one row and
\* of different widths whose cells differ.
C11_Witness ==
    /\ catPc = "returned"
    /\ Cardinality(DOMAIN catLhs) > 1
    /\ Cardinality(DOMAIN catLhs[0]) # Cardinality(DOMAIN catRhs[0])
    /\ catLhs[0][0] # catRhs[0][0]
    /\ catLhs[1][0] # catLhs[0][0]

----------------------------------------------------------------------------
(* Properties of the multi-threaded benchmark.                             *)

\* f[0] + ... + f[n-1]
RECURSIVE SumFirst(_, _)
SumFirst(f, n) == IF n = 0 THEN 0 ELSE f[n - 1] + SumFirst(f, n - 1)

\* The number of trials worker t has begun: iterations of its while loop.
TrialsBegun ==
    [t \in Threads |->
        IF tpc[t] \in {"unstarted", "started"} THEN 0 ELSE Quota - remaining[t]]

\* The number of trials of worker t that are past their counter increment.
TrialsCounted ==
    [t \in Threads |->
        TrialsBegun[t] - (IF tpc[t] \in {"try", "returned", "caught"} THEN 1 ELSE 0)]

\* What a step does to the counters: a worker that leaves the point after
\* invert() returned adds one to singular_count alone, a worker that leaves
\* the catch clause adds one to degenerate_count alone, and any other step
\* leaves both counters as they are.
CountingStep ==
    /\ \A t \in Threads :
          /\ (tpc[t] = "returned" /\ tpc'[t] # "returned")
                => /\ singular_count' = singular_count + 1
                   /\ degenerate_count' = degenerate_count
          /\ (tpc[t] = "caught" /\ tpc'[t] # "caught")
                => /\ degenerate_count' = degenerate_count + 1
                   /\ singular_count' = singular_count
    /\ (\A u \in Threads : tpc[u] \in {"returned", "caught"} => tpc'[u] = tpc[u])
          => /\ singular_count' = singular_count
             /\ degenerate_count' = degenerate_count

\* C12: under every interleaving of the workers, each trial increments
\* exactly one of the two shared counters exactly once (singular_count when
\* invert() returned, degenerate_count when it threw), no increment is
\* lost, and once all workers are joined the two counters add up to the
\* number of trials the workers executed.
C12_OneIncrementPerTrial ==
    /\ [](singular_count + degenerate_count = SumFirst(TrialsCounted, thread_count))
    /\ [][CountingStep]_vars
    /\ [](mainPc \in {"report", "exit"}
            => /\ \A t \in Threads : tpc[t] = "finished"
               /\ singular_count + degenerate_count = SumFirst(TrialsBegun, thread_count))

\* C12's case: main has printed after two workers ran at once and both
\* counters were incremented.
C12_Witness ==
    /\ mainPc = "exit"
    /\ thread_count > 1
    /\ reported.singular > 0
    /\ reported.degenerate > 0

\* C13 (as claimed): for every number of worker threads the workers
\* together execute exactly test_count trials: the two counters add up to
\* test_count, and the divisor of the printed average is the number of
\* trials that were run.
C13_RunsTestCountTrials ==
    mainPc = "exit" =>
        /\ reported.singular + reported.degenerate = test_count
        /\ reported.divisor = SumFirst(TrialsBegun, thread_count)

\* The workers that are in the update of inversion_time.
InUpdate == {t \in Threads : tpc[t] \in {"load", "store", "unlock"}}

\* What a step does to the total and to the report: the total changes only
\* in the write of a worker that holds timer_mutex, by that worker's time,
\* and main prints only after it joined every worker.
TotalStep ==
    /\ (inversion_time' # inversion_time)
          => \E t \in Threads :
                /\ timer_mutex = t
                /\ tpc[t] = "store"
                /\ tpc'[t] = "unlock"
                /\ inversion_time' = inversion_time + inversion_time_elapsed[t]
    /\ (reported' # reported)
          => /\ joined = thread_count
             /\ \A u \in Threads : tpc[u] = "finished"

\* C14: inversion_time is updated only by a worker that holds timer_mutex,
\* at most one worker at a time is in the update, main reads the total only
\* after it joined every worker, and the total it reads is the sum of the
\* times the workers' calls of time_random_matrices returned.
C14_TotalUnderMutex ==
    /\ [](/\ Cardinality(InUpdate) <= 1
          /\ \A t \in InUpdate : timer_mutex = t)
    /\ [][TotalStep]_vars
    /\ [](mainPc = "exit"
            => reported.total = SumFirst(inversion_time_elapsed, thread_count))

\* C14's case: a worker has written its time to the total and still holds
\* the mutex while another worker, with a time of its own, waits for it.
C14_Witness ==
    \E t \in Threads, u \in Threads :
        /\ tpc[t] = "unlock"
        /\ tpc[u] = "lock"
        /\ inversion_time > 0
        /\ inversion_time_elapsed[u] > 0

----------------------------------------------------------------------------
(* Properties of the steps of row_reduce.                                  *)

\* C15 (as claimed): whenever the pivot step of row_reduce at index r ends
\* without raising, element (r,r) is not zero-equivalent, so the normalize
\* step does not divide by zero and leaves (r,r) equal to exactly 1.
C15_PivotStepLeavesNonZeroPivot ==
    /\ pc = "normalize" => ~ZeroEquivalent(aug[r][r])
    /\ pc = "eliminate" => aug[r][r] = T(1)

\* C16: in the pivot step at index r, when (r,r) is not zero-equivalent no
\* rows are swapped; otherwise, when the step does not raise, row r is
\* swapped with the row of the smallest index s > r whose own diagonal
\* element (s,s) is not zero-equivalent (column r of the candidate plays
\* no part), and every row other than r and s is left as it was.
C16_SwapsWithFirstDiagonalCandidate ==
    [][ (pc = "pivot" /\ pc' # "pivot") =>
          IF ~ZeroEquivalent(aug[r][r])
          THEN pc' = "normalize" /\ aug' = aug
          ELSE pc' = "normalize" =>
                 \E s \in (r + 1)..(Cardinality(DOMAIN aug) - 1) :
                    /\ ~ZeroEquivalent(aug[s][s])
                    /\ \A k \in (r + 1)..(s - 1) : ZeroEquivalent(aug[k][k])
                    /\ DOMAIN aug' = DOMAIN aug
                    /\ aug'[r] = aug[s]
                    /\ aug'[s] = aug[r]
                    /\ \A k \in DOMAIN aug \ {r, s} : aug'[k] = aug[k]
      ]_vars

\* C16's case: at index 0 of a 3 x 3 matrix, row 1 has a non-zero element in
\* column 0 and a zero diagonal element, row 2 a zero in column 0 and a
\* non-zero diagonal element: rows 0 and 2 have been swapped.
C16_Witness ==
    /\ pc = "normalize"
    /\ r = 0
    /\ Cardinality(DOMAIN before) = 3
    /\ before[0][0] = T(0)
    /\ before[1][0] = T(1)
    /\ before[1][1] = T(0)
    /\ before[2][0] = T(0)
    /\ before[2][2] = T(1)
    /\ before[0] # before[2]
    /\ \A c \in DOMAIN before :
          /\ aug[0][c] = before[2][c]
          /\ aug[2][c] = before[0][c]
          /\ aug[1][c] = before[1][c]

\* Columns 0 .. n-1 of m are unit columns: (c,c) is 1 and (s,c) is 0 for
\* every row s # c.
UnitColumns(m, n) ==
    \A c \in 0..(n - 1) :
        /\ m[c][c] = T(1)
        /\ \A s \in DOMAIN m \ {c} : m[s][c] = T(0)

\* In exact arithmetic the loop of row_reduce keeps reduced columns: a swap
\* keeps the unit columns before r, the normalize step with a pivot that
\* is not zero keeps them and makes (r,r) 1, and the eliminate step with
\* (r,r) = 1 makes column r a unit column too.
ExactStepsKeepUnitColumns ==
    [][ /\ (pc = "pivot" /\ pc' = "normalize" /\ UnitColumns(aug, r))
              => UnitColumns(aug', r)
        /\ (pc = "normalize" /\ UnitColumns(aug, r)
                /\ IsFin(aug[r][r]) /\ Sign(aug[r][r]) # 0)
              => (UnitColumns(aug', r) /\ aug'[r][r] = T(1))
        /\ (pc = "eliminate" /\ UnitColumns(aug, r) /\ aug[r][r] = T(1))
              => UnitColumns(aug', r + 1)
      ]_vars

\* C17 (as claimed): provided the pivot used at each completed iteration
\* was non-zero, after iteration r completes every column c <= r is a unit
\* column: (c,c) is 1 and (s,c) is 0 for every row s # c.  Here for a
\* matrix of Height 1 in double arithmetic, whose one iteration is complete
\* when row_reduce has returned: (0,0) is 1.
C17_ReducedColumnsAreUnit ==
    (dblPc \in {"reduced", "returned"} /\ dblBefore[0][0] # DZero)
        => dblAug[0][0] = DOne

\* C18: every call of invert and get_inverse, and the call of row_reduce
\* in it, terminates for every input matrix, in exactly one of two
\* outcomes: it returns or it raises the degenerate-matrix error, and stays
\* so; the pivot loop runs at most Height iterations and the pivot search
\* at index r inspects at most Height - r - 1 candidate rows.
C18_CallsTerminate ==
    /\ (pc # "idle") ~> (pc \in {"returned", "raised"})
    /\ [][(pc \in {"returned", "raised"}) => (pc' = pc)]_vars
    /\ [](/\ pc = "returned" => raisedAt = -1
          /\ pc = "raised" => raisedAt = r)
    /\ [](pc \in {"pivot", "normalize", "eliminate"} => r < Cardinality(DOMAIN aug))
    /\ [](pc \in {"reduced", "returned"} => r = Cardinality(DOMAIN aug))
    /\ [](pc = "pivot" =>
            CandidatesInspected(aug, r, r + 1) <= Cardinality(DOMAIN aug) - r - 1)

\* C18's case: a call on a matrix of the largest size has returned after
\* Height iterations, the first of which inspected every candidate row.
C18_Witness ==
    /\ pc = "returned"
    /\ Cardinality(DOMAIN before) = MaxSize
    /\ r = MaxSize
    /\ \A i \in 0..(MaxSize - 2) : before[i][i] = T(0)
    /\ before[MaxSize - 1][MaxSize - 1] = T(1)

=============================================================================
